---- MODULE Spec2Model ----
(***************************************************************************)
(* Model of src/python/hash_tables.py: a fixed-capacity hash table with    *)
(* separate chaining.  Nodes live in a heap (a sequence of records indexed *)
(* by node identity); buckets hold the identity of the chain head or NIL.  *)
(* Keys are naturals standing for the string keys, values are strings.     *)
(***************************************************************************)
EXTENDS Integers, Sequences, FiniteSets

\* ---------------------------------------------------------------- bounds
\* Number of insert calls explored.
MaxInserts == 3
\* Number of remove calls that return a value explored.
MaxRemoves == 2

\* ------------------------------------------------------------- constants
INITIAL_CAP == 50

\* Python's None as a node reference (Node.next, an empty bucket slot).
NIL == 0
\* Python's None as a returned value.
NONE == "None"

\* Keys 1 and 1 + INITIAL_CAP share a bucket; key 2 has a bucket of its own.
Keys == {1, 2, 1 + INITIAL_CAP}
Values == {"1", "2"}

\* Attributes the class statement and __init__ give a HashTable object.
ClassAttrs == {"__init__", "insert", "find", "remove"}
InstanceAttrs == {"capacity", "size", "buckets"}
\* The hash method the table's operations call; the class does not define it.
HashAttr == "hash"
\* The attributes a user of the class has to supply for the calls to resolve.
SuppliedAttrs == {HashAttr}

VARIABLES
    capacity,   \* self.capacity
    size,       \* self.size
    buckets,    \* self.buckets: [0..capacity-1 -> node identity or NIL]
    heap,       \* the Node objects created so far: heap[n] = [key, value, next]
    attrs,      \* the attribute names that resolve on the table object
    lastCall,   \* the last call made and what it returned or raised
    nInsert,    \* history: number of insert calls made
    nRemoved,   \* history: number of remove calls that returned a value
    lastIns,    \* history: lastIns[k] = value of the latest insert(k, _) with no remove(k) call since
    cleanIns,   \* history: cleanIns[k] = value of an insert(k, _) into a table holding no entry for k, no remove(k) call since
    fifo,       \* history: fifo[k] = values inserted for k, oldest first, one dropped per remove(k) call
    keyCalls    \* history: keyCalls[k] = the values insert(k, _) was called with, the number of
                \*          insert(k, _) calls and the number of remove(k) calls that returned a value

vars == <<capacity, size, buckets, heap, attrs, lastCall, nInsert, nRemoved, lastIns, cleanIns, fifo, keyCalls>>

\* ---------------------------------------------------------------- helpers
\* Node(key, value)
Node(key, value) == [key |-> key, value |-> value, next |-> NIL]

\* self.hash(key): any deterministic total function into [0, capacity).
hash(key) == key % capacity

\* The node identities of the chain starting at node n, in chain order.
RECURSIVE Chain(_)
Chain(n) == IF n = NIL THEN <<>> ELSE <<n>> \o Chain(heap[n].next)

\* insert's walk to the end of the list: the last node of the chain from node.
RECURSIVE insertWalk(_, _)
insertWalk(prev, node) ==
    IF node # NIL THEN insertWalk(node, heap[node].next) ELSE prev

\* find's walk with an if in place of the while: only the head is compared.
findWalkHeadOnly(node, key) ==
    IF node # NIL /\ heap[node].key # key THEN NIL ELSE node

\* find's walk: the first node with the key, or NIL.
RECURSIVE findWalk(_, _)
findWalk(node, key) ==
    IF node # NIL /\ heap[node].key # key THEN findWalk(heap[node].next, key) ELSE node

\* remove's walk: <<prev, node>> where node is the first node with the key, or NIL.
RECURSIVE removeWalk(_, _, _)
removeWalk(prev, node, key) ==
    IF node # NIL /\ heap[node].key # key
    THEN removeWalk(node, heap[node].next, key)
    ELSE <<prev, node>>

\* ------------------------------------------------------------- operations
\* insert without the collision branch: the new node always takes the slot.
insertOverwrite(key, value) ==
    [buckets |-> [buckets EXCEPT ![hash(key)] = Len(heap) + 1],
     heap    |-> Append(heap, Node(key, value))]

\* insert with the index one slot off.
insertWrongBucket(key, value) ==
    LET index == (hash(key) + 1) % capacity
        node  == buckets[index]
        new   == Len(heap) + 1
    IN  IF node = NIL
        THEN [buckets |-> [buckets EXCEPT ![index] = new],
              heap    |-> Append(heap, Node(key, value))]
        ELSE LET prev == insertWalk(node, node)
             IN  [buckets |-> buckets,
                  heap    |-> Append([heap EXCEPT ![prev].next = new], Node(key, value))]

\* insert appending the new node to the bucket array when the slot is empty.
insertGrowing(key, value) ==
    LET index == hash(key)
        node  == buckets[index]
        new   == Len(heap) + 1
    IN  IF node = NIL
        THEN [buckets |-> [j \in 0..(Len(heap) + capacity) |->
                              IF j \in DOMAIN buckets THEN buckets[j] ELSE new],
              heap    |-> Append(heap, Node(key, value))]
        ELSE LET prev == insertWalk(node, node)
             IN  [buckets |-> buckets,
                  heap    |-> Append([heap EXCEPT ![prev].next = new], Node(key, value))]

\* insert linking the new node in front of the chain.
insertAtHead(key, value) ==
    LET index == hash(key)
        new   == Len(heap) + 1
    IN  [buckets |-> [buckets EXCEPT ![index] = new],
         heap    |-> Append(heap, [Node(key, value) EXCEPT !.next = buckets[index]])]

\* insert closing the chain into a ring: the new tail points back at the head.
insertCircular(key, value) ==
    LET index == hash(key)
        node  == buckets[index]
        new   == Len(heap) + 1
    IN  IF node = NIL
        THEN [buckets |-> [buckets EXCEPT ![index] = new],
              heap    |-> Append(heap, Node(key, value))]
        ELSE LET prev == insertWalk(node, node)
             IN  [buckets |-> buckets,
                  heap    |-> Append([heap EXCEPT ![prev].next = new],
                                     [Node(key, value) EXCEPT !.next = node])]

\* HashTable.insert after the index is computed: the new buckets and heap.
insert(key, value) ==
    LET index == hash(key)
        node  == buckets[index]
        new   == Len(heap) + 1
    IN  IF node = NIL
        THEN [buckets |-> [buckets EXCEPT ![index] = new],
              heap    |-> Append(heap, Node(key, value))]
        ELSE LET prev == insertWalk(node, node)
             IN  [buckets |-> buckets,
                  heap    |-> Append([heap EXCEPT ![prev].next = new], Node(key, value))]

\* find without the key comparison: the head of the bucket is returned.
findAnyKey(key) ==
    LET node == buckets[hash(key)]
    IN  IF node = NIL THEN NONE ELSE heap[node].value

\* HashTable.find: the returned value.
find(key) ==
    LET node == findWalk(buckets[hash(key)], key)
    IN  IF node = NIL THEN NONE ELSE heap[node].value

\* remove without the size decrement.
removeNoDecrement(key) ==
    LET index == hash(key)
        w     == removeWalk(NIL, buckets[index], key)
        prev  == w[1]
        node  == w[2]
    IN  IF node = NIL
        THEN [size |-> size, buckets |-> buckets, heap |-> heap, result |-> NONE]
        ELSE [size    |-> size,
              buckets |-> buckets,
              heap    |-> IF prev = NIL
                          THEN heap
                          ELSE [heap EXCEPT ![prev].next = heap[heap[prev].next].next],
              result  |-> heap[node].value]

\* remove cutting the chain behind the predecessor.
removeTruncate(key) ==
    LET index == hash(key)
        w     == removeWalk(NIL, buckets[index], key)
        prev  == w[1]
        node  == w[2]
    IN  IF node = NIL
        THEN [size |-> size, buckets |-> buckets, heap |-> heap, result |-> NONE]
        ELSE [size    |-> size - 1,
              buckets |-> buckets,
              heap    |-> IF prev = NIL
                          THEN heap
                          ELSE [heap EXCEPT ![prev].next = NIL],
              result  |-> heap[node].value]

\* remove decrementing the size before it knows whether the key was found.
removeDecrementFirst(key) ==
    LET index == hash(key)
        w     == removeWalk(NIL, buckets[index], key)
        prev  == w[1]
        node  == w[2]
    IN  IF node = NIL
        THEN [size |-> size - 1, buckets |-> buckets, heap |-> heap, result |-> NONE]
        ELSE [size    |-> size - 1,
              buckets |-> buckets,
              heap    |-> IF prev = NIL
                          THEN heap
                          ELSE [heap EXCEPT ![prev].next = heap[heap[prev].next].next],
              result  |-> heap[node].value]

\* HashTable.remove: the new size, buckets and heap and the returned value.
remove(key) ==
    LET index == hash(key)
        w     == removeWalk(NIL, buckets[index], key)
        prev  == w[1]
        node  == w[2]
    IN  IF node = NIL
        THEN [size |-> size, buckets |-> buckets, heap |-> heap, result |-> NONE]
        ELSE [size    |-> size - 1,
              buckets |-> buckets,
              heap    |-> IF prev = NIL
                          THEN heap
                          ELSE [heap EXCEPT ![prev].next = heap[heap[prev].next].next],
              result  |-> heap[node].value]

\* The identities of the nodes reachable from the bucket heads.
Reachable ==
    UNION { LET c == Chain(buckets[i]) IN { c[j] : j \in 1..Len(c) } : i \in 0..(capacity - 1) }

\* Does the table hold an entry for key (a reachable node with that key)?
HasEntry(key) == \E n \in Reachable : heap[n].key = key

Call(op, key, value, result, exc) ==
    [op |-> op, key |-> key, value |-> value, result |-> result, exc |-> exc]

\* ----------------------------------------------------------------- state
\* HashTable.__init__, with the call history empty.
TableInit ==
    /\ capacity = INITIAL_CAP
    /\ size = 0
    /\ buckets = [i \in 0..(INITIAL_CAP - 1) |-> NIL]
    /\ heap = <<>>
    /\ lastCall = Call("new", 0, NONE, NONE, NONE)
    /\ nInsert = 0
    /\ nRemoved = 0
    /\ lastIns = [k \in Keys |-> NONE]
    /\ cleanIns = [k \in Keys |-> NONE]
    /\ fifo = [k \in Keys |-> <<>>]
    /\ keyCalls = [k \in Keys |-> [inserted |-> {}, nInsert |-> 0, nRemoved |-> 0]]

\* HashTable() as the source defines it: no hash attribute.
InitAsWritten ==
    /\ TableInit
    /\ attrs = ClassAttrs \cup InstanceAttrs

\* HashTable() with the hash method supplied.
Init ==
    /\ TableInit
    /\ attrs = ClassAttrs \cup InstanceAttrs \cup SuppliedAttrs

\* HashTable.insert as a step.
Insert(key, value) ==
    /\ nInsert < MaxInserts
    /\ nInsert' = nInsert + 1
    /\ size' = size + 1
    /\ IF HashAttr \in attrs
       THEN /\ LET r == insert(key, value)
               IN  /\ buckets' = r.buckets
                   /\ heap' = r.heap
            /\ lastCall' = Call("insert", key, value, NONE, NONE)
       ELSE /\ UNCHANGED <<buckets, heap>>
            /\ lastCall' = Call("insert", key, value, NONE, "AttributeError")
    /\ lastIns' = [lastIns EXCEPT ![key] = value]
    /\ cleanIns' = IF HasEntry(key) THEN cleanIns ELSE [cleanIns EXCEPT ![key] = value]
    /\ fifo' = [fifo EXCEPT ![key] = Append(@, value)]
    /\ keyCalls' = [keyCalls EXCEPT ![key].inserted = @ \cup {value}, ![key].nInsert = @ + 1]
    /\ UNCHANGED <<capacity, attrs, nRemoved>>

\* find walking with the bucket slot itself in place of a local reference.
FindRelinking(key) ==
    /\ IF HashAttr \in attrs
       THEN /\ lastCall' = Call("find", key, NONE, find(key), NONE)
            /\ buckets' = [buckets EXCEPT ![hash(key)] = findWalk(buckets[hash(key)], key)]
       ELSE /\ lastCall' = Call("find", key, NONE, NONE, "AttributeError")
            /\ UNCHANGED buckets
    /\ UNCHANGED <<capacity, size, heap, attrs, nInsert, nRemoved, lastIns, cleanIns, fifo, keyCalls>>

\* HashTable.find as a step.
Find(key) ==
    /\ UNCHANGED <<capacity, size, buckets, heap, attrs, nInsert, nRemoved, lastIns, cleanIns, fifo, keyCalls>>
    /\ IF HashAttr \in attrs
       THEN lastCall' = Call("find", key, NONE, find(key), NONE)
       ELSE lastCall' = Call("find", key, NONE, NONE, "AttributeError")

\* HashTable.remove as a step.
Remove(key) ==
    /\ UNCHANGED <<capacity, attrs, nInsert>>
    /\ lastIns' = [lastIns EXCEPT ![key] = NONE]
    /\ cleanIns' = [cleanIns EXCEPT ![key] = NONE]
    /\ fifo' = [fifo EXCEPT ![key] = IF @ = <<>> THEN @ ELSE Tail(@)]
    /\ IF HashAttr \in attrs
       THEN LET r == remove(key)
            IN  /\ r.result # NONE => nRemoved < MaxRemoves
                /\ size' = r.size
                /\ buckets' = r.buckets
                /\ heap' = r.heap
                /\ lastCall' = Call("remove", key, NONE, r.result, NONE)
                /\ nRemoved' = IF r.result # NONE THEN nRemoved + 1 ELSE nRemoved
                /\ keyCalls' = IF r.result # NONE
                               THEN [keyCalls EXCEPT ![key].nRemoved = @ + 1]
                               ELSE keyCalls
       ELSE /\ UNCHANGED <<size, buckets, heap, nRemoved, keyCalls>>
            /\ lastCall' = Call("remove", key, NONE, NONE, "AttributeError")

Next ==
    \/ \E key \in Keys, value \in Values : Insert(key, value)
    \/ \E key \in Keys : Find(key)
    \/ \E key \in Keys : Remove(key)

Spec == Init /\ [][Next]_vars

SpecAsWritten == InitAsWritten /\ [][Next]_vars

\* ------------------------------------------------------- claim vocabulary
\* The reachable nodes with the key; identities grow with insertion time.
EntriesFor(key) == { n \in Reachable : heap[n].key = key }

Earliest(S) == CHOOSE n \in S : \A m \in S : n <= m

HeadOrNone(q) == IF q = <<>> THEN NONE ELSE Head(q)

\* ------------------------------------------------------------------ C1
\* C1 (as stated): after insert(k, v), with no remove(k) call afterwards,
\* every find(k) returns v.
C1_InsertThenFind ==
    (lastCall.op = "find" /\ lastIns[lastCall.key] # NONE)
        => lastCall.result = lastIns[lastCall.key]

\* C1 (amended): after insert(k, v) into a table that holds no entry for k,
\* with no remove(k) call afterwards, every find(k) returns v.
C1_InsertAbsentThenFind ==
    (lastCall.op = "find" /\ cleanIns[lastCall.key] # NONE)
        => lastCall.result = cleanIns[lastCall.key]

\* A find of a key inserted while absent, behind another key in its chain,
\* and after a later insert of the same key with another value.
C1_Witness ==
    /\ lastCall.op = "find"
    /\ cleanIns[lastCall.key] # NONE
    /\ lastIns[lastCall.key] # cleanIns[lastCall.key]
    /\ heap[buckets[hash(lastCall.key)]].key # lastCall.key

\* ------------------------------------------------------------------ C2
\* C2: for a key k with at least one entry, remove(k) returns the value of
\* the earliest-inserted entry for k, and a find(k) right afterwards returns
\* None if that was the only entry, else the next-earliest entry's value.
C2_RemoveReturnsAndDeletes ==
    [][\A k \in Keys :
        (HasEntry(k) /\ Remove(k)) =>
            /\ lastCall'.result = heap[Earliest(EntriesFor(k))].value
            /\ find(k)' =
                 IF Cardinality(EntriesFor(k)) = 1
                 THEN NONE
                 ELSE heap[Earliest(EntriesFor(k) \ {Earliest(EntriesFor(k))})].value]_vars

\* ------------------------------------------------------------------ C3
\* C3: when remove(k) matches the head node of its bucket's chain, the
\* bucket slot afterwards holds the matched node's successor (None when the
\* matched node was the sole entry).
C3_HeadRemoveRelinksBucket ==
    [][\A k \in Keys :
        (/\ Remove(k)
         /\ buckets[hash(k)] # NIL
         /\ heap[buckets[hash(k)]].key = k)
            => buckets'[hash(k)] = heap[buckets[hash(k)]].next]_vars

\* ------------------------------------------------------------------ C4
\* C4: in every reachable state size equals the number of nodes reachable
\* from the bucket heads.
C4_SizeCountsReachable == size = Cardinality(Reachable)

\* ------------------------------------------------------------------ C5
\* C5: size equals the number of insert calls minus the number of remove
\* calls that returned a value; find calls and not-found removes leave it.
C5_SizeAccounting ==
    /\ [](size = nInsert - nRemoved)
    /\ [][\A k \in Keys :
            (Find(k) \/ (Remove(k) /\ lastCall'.result = NONE)) => size' = size]_vars

\* A not-found remove after two inserts and a remove that returned a value.
C5_Witness ==
    /\ nInsert >= 2
    /\ nRemoved >= 1
    /\ lastCall.op = "remove"
    /\ lastCall.result = NONE

\* ------------------------------------------------------------------ C6
\* C6: if the table holds no entry for k, find(k) and remove(k) return None
\* and neither changes size.
C6_NotFoundOnAbsent ==
    [][\A k \in Keys :
        ((Find(k) \/ Remove(k)) /\ ~HasEntry(k))
            => (lastCall'.result = NONE /\ size' = size)]_vars

\* A not-found call for a key whose bucket holds only other keys.
C6_Witness ==
    /\ lastCall.op \in {"find", "remove"}
    /\ lastCall.result = NONE
    /\ ~HasEntry(lastCall.key)
    /\ buckets[hash(lastCall.key)] # NIL

\* ------------------------------------------------------------------ C7
\* C7: two distinct keys with the same hash, each inserted while the table
\* held no entry for it, are both in the bucket's chain, and find returns
\* each key's own value, whichever was inserted first.
C7_CollisionCorrectness ==
    \A k1, k2 \in Keys :
        (/\ k1 # k2
         /\ hash(k1) = hash(k2)
         /\ cleanIns[k1] # NONE
         /\ cleanIns[k2] # NONE)
            => /\ \E j \in 1..Len(Chain(buckets[hash(k1)])) :
                     heap[Chain(buckets[hash(k1)])[j]] .key = k1
               /\ \E j \in 1..Len(Chain(buckets[hash(k1)])) :
                     heap[Chain(buckets[hash(k1)])[j]].key = k2
               /\ find(k1) = cleanIns[k1]
               /\ find(k2) = cleanIns[k2]

\* Two colliding keys with different values, the larger key inserted first,
\* and the key behind it just found.
C7_Witness ==
    \E k1, k2 \in Keys :
        /\ k1 < k2
        /\ hash(k1) = hash(k2)
        /\ cleanIns[k1] # NONE
        /\ cleanIns[k2] # NONE
        /\ cleanIns[k1] # cleanIns[k2]
        /\ heap[buckets[hash(k1)]].key = k2
        /\ lastCall = Call("find", k1, NONE, cleanIns[k1], NONE)

\* ------------------------------------------------------------------ C8
\* C8: duplicate keys are served in insertion order: each remove(k) returns
\* the oldest value of k not yet removed, find(k) returns the value the next
\* remove(k) will return, and None once every inserted value was removed.
C8_DuplicatesInInsertionOrder ==
    [][\A k \in Keys :
        /\ Find(k) => lastCall'.result = HeadOrNone(fifo[k])
        /\ Remove(k) => lastCall'.result = HeadOrNone(fifo[k])]_vars

\* ------------------------------------------------------------------ C9
\* C9: every insert call completes without raising: the table has a hash
\* method to compute the bucket index with.
C9_InsertNeverRaises ==
    lastCall.op = "insert" => (lastCall.exc = NONE /\ HashAttr \in attrs)

\* ----------------------------------------------------------------- C10
\* C10: find(k) leaves size, capacity, every bucket slot and every node's
\* key, value and next link unchanged.
C10_FindReadOnly ==
    [][\A k \in Keys : Find(k) => UNCHANGED <<size, capacity, buckets, heap>>]_vars

\* A find that returned a value from a chain of at least two nodes.
C10_Witness ==
    /\ lastCall.op = "find"
    /\ lastCall.result # NONE
    /\ Len(Chain(buckets[hash(lastCall.key)])) >= 2

\* ----------------------------------------------------------------- C11
\* C11: in every reachable state, every node reachable from buckets[i] has
\* a key that hashes to i, for every index i in [0, capacity).
C11_ChainKeysHashToBucket ==
    \A i \in 0..(capacity - 1) :
        LET c == Chain(buckets[i])
        IN  \A j \in 1..Len(c) : hash(heap[c[j]].key) = i

\* Two buckets in use, one of them with a chain of two different keys.
C11_Witness ==
    /\ \E i \in 0..(capacity - 1) :
          LET c == Chain(buckets[i])
          IN  Len(c) >= 2 /\ heap[c[1]].key # heap[c[2]].key
    /\ Cardinality({i \in 0..(capacity - 1) : buckets[i] # NIL}) >= 2

\* ----------------------------------------------------------------- C12
\* C12: insert(k, v) adds exactly one new node (k, v) with next = None at
\* the tail of the chain of bucket hash(k) (as the head if the bucket was
\* empty), increases size by exactly 1 even when k is already present,
\* keeps the existing nodes of that chain and their order, and leaves all
\* other buckets unchanged.
C12_InsertAppendsAtTail ==
    [][\A k \in Keys, v \in Values :
        Insert(k, v) =>
            LET old == Chain(buckets[hash(k)])
                new == Len(heap) + 1
            IN  /\ size' = size + 1
                /\ Len(heap') = Len(heap) + 1
                /\ heap'[new] = [key |-> k, value |-> v, next |-> NIL]
                /\ Chain(buckets[hash(k)])' = Append(old, new)
                /\ \A n \in 1..Len(heap) :
                      /\ heap'[n].key = heap[n].key
                      /\ heap'[n].value = heap[n].value
                /\ \A j \in 0..(capacity - 1) :
                      j # hash(k) =>
                          /\ buckets'[j] = buckets[j]
                          /\ Chain(buckets[j])' = Chain(buckets[j])]_vars

\* An insert of a key already present, behind a chain that also holds
\* another key: the new node is the tail.
C12_Witness ==
    /\ lastCall.op = "insert"
    /\ LET c == Chain(buckets[hash(lastCall.key)])
       IN  /\ Len(c) >= 3
           /\ c[Len(c)] = Len(heap)
           /\ \E j \in 1..(Len(c) - 1) : heap[c[j]].key = lastCall.key
           /\ \E j \in 1..(Len(c) - 1) : heap[c[j]].key # lastCall.key

\* ----------------------------------------------------------------- C13
\* C13: when remove(k) matches a node that has a predecessor in its chain,
\* exactly that node (the first node with key k in chain order) is unlinked:
\* the predecessor's next becomes the matched node's successor, every other
\* node of the chain (later nodes with key k included) stays reachable in
\* the same relative order, and all other buckets are unchanged.
C13_RemoveUnlinksFirstMatch ==
    [][\A k \in Keys :
        LET old  == Chain(buckets[hash(k)])
            w    == removeWalk(NIL, buckets[hash(k)], k)
            prev == w[1]
            node == w[2]
        IN  (Remove(k) /\ node # NIL /\ prev # NIL) =>
                /\ \E p \in 2..Len(old) :
                      /\ old[p] = node
                      /\ old[p - 1] = prev
                      /\ heap[node].key = k
                      /\ \A q \in 1..(p - 1) : heap[old[q]].key # k
                /\ heap'[prev].next = heap[node].next
                /\ Chain(buckets[hash(k)])' = SelectSeq(old, LAMBDA n : n # node)
                /\ \A n \in 1..Len(heap) :
                      /\ heap'[n].key = heap[n].key
                      /\ heap'[n].value = heap[n].value
                      /\ n # prev => heap'[n].next = heap[n].next
                /\ \A j \in 0..(capacity - 1) :
                      /\ buckets'[j] = buckets[j]
                      /\ j # hash(k) => Chain(buckets[j])' = Chain(buckets[j])]_vars

\* A remove that unlinked a node behind the head while a later node with
\* the same key stays in the chain.
C13_Witness ==
    /\ lastCall.op = "remove"
    /\ lastCall.result # NONE
    /\ Len(heap) > Cardinality(Reachable)
    /\ HasEntry(lastCall.key)
    /\ heap[buckets[hash(lastCall.key)]].key # lastCall.key

\* ----------------------------------------------------------------- C14
\* Following next from node n reaches None within the given number of steps.
RECURSIVE ReachesNone(_, _)
ReachesNone(n, steps) ==
    IF n = NIL THEN TRUE
    ELSE IF steps = 0 THEN FALSE
    ELSE ReachesNone(heap[n].next, steps - 1)

\* C14: in every reachable state each bucket's chain is acyclic and finite:
\* following next from a bucket head reaches None without visiting a node
\* twice, that is, within as many steps as there are nodes.
C14_ChainsAcyclic ==
    \A i \in 0..(capacity - 1) : ReachesNone(buckets[i], Len(heap))

\* A chain of two nodes left after a node between or behind them was unlinked.
C14_Witness ==
    /\ nRemoved >= 1
    /\ Len(heap) > Cardinality(Reachable)
    /\ \E i \in 0..(capacity - 1) : Len(Chain(buckets[i])) >= 2

\* ----------------------------------------------------------------- C15
\* C15: capacity and the length of the buckets array are fixed at
\* construction (50, all slots empty, size 0) and never change.
C15_CapacityFixed ==
    /\ capacity = INITIAL_CAP
    /\ size = 0
    /\ buckets = [i \in 0..(INITIAL_CAP - 1) |-> NIL]
    /\ [](capacity = INITIAL_CAP /\ DOMAIN buckets = 0..(INITIAL_CAP - 1))
    /\ [][capacity' = capacity /\ DOMAIN buckets' = DOMAIN buckets]_vars

\* All three operations were used: nodes were inserted, one was unlinked
\* and the last call was a find.
C15_Witness ==
    /\ nInsert = MaxInserts
    /\ nRemoved >= 1
    /\ Len(heap) > Cardinality(Reachable)
    /\ lastCall.op = "find"

\* ----------------------------------------------------------------- C16
\* C16: size is never negative.
C16_SizeNonNegative == size >= 0

\* ----------------------------------------------------------------- C17
\* C17: a remove(k) that returns None leaves the whole table unchanged:
\* size, every bucket slot and every node's key, value and next link.
C17_NotFoundRemoveChangesNothing ==
    [][\A k \in Keys :
        (Remove(k) /\ lastCall'.result = NONE)
            => UNCHANGED <<size, capacity, buckets, heap>>]_vars

\* A not-found remove whose walk went through a chain of other keys.
C17_Witness ==
    /\ lastCall.op = "remove"
    /\ lastCall.result = NONE
    /\ buckets[hash(lastCall.key)] # NIL
    /\ size >= 1

\* ----------------------------------------------------------------- C18
\* C18: find and remove never fabricate values: whenever find(k) or
\* remove(k) returns a value v, an insert(k, v) was called earlier, and the
\* number of remove(k) calls that returned a value never exceeds the number
\* of insert(k, _) calls made so far.
C18_NoFabricatedValues ==
    /\ (lastCall.op \in {"find", "remove"} /\ lastCall.result # NONE)
          => lastCall.result \in keyCalls[lastCall.key].inserted
    /\ \A k \in Keys : keyCalls[k].nRemoved <= keyCalls[k].nInsert

====
